---- MODULE Spec2Model ----
(***************************************************************************)
(* Savings tracker (App component): the transaction collection held in     *)
(* React state, the add / delete handlers, the memoised per-type lists and *)
(* totals, and the localStorage slot the collection is loaded from and     *)
(* written back to.                                                        *)
(*                                                                         *)
(* Strings that the code inspects (the two form inputs) are sequences of   *)
(* one-character strings; the word Infinity is the single symbol           *)
(* "Infinity".  A number is a record [k, v]: k = "num" (finite, value v),  *)
(* "inf" (v = sign), "nan", or "null" (the JS null a JSON null parses to). *)
(* An ISO-8601 date string is the record [iso |-> t] of its instant t.     *)
(* An id (a UUID string) is an integer.                                    *)
(***************************************************************************)
EXTENDS Integers, Sequences, FiniteSets, TLC

\* ---------------------------------------------------------------- bounds
MaxAdds == 2
MaxTime == 2
MaxSessions == 2

\* ------------------------------------------------------------- constants
MyMoney == "myMoney"
DadsDebt == "dadsDebt"
StorageKey == "savingsTrackerTransactions"

\* ---------------------------------------------------------- JS numbers
Num(n) == [k |-> "num", v |-> n]
Infinity(sign) == [k |-> "inf", v |-> sign]
NaN == [k |-> "nan", v |-> 0]
Null == [k |-> "null", v |-> 0]

\* ToNumber on the operands of +: null becomes 0.
ToNumber(x) == IF x.k = "null" THEN Num(0) ELSE x

\* sum + tx.amount on IEEE numbers (finite values stay integers here).
JsAdd(a, b) ==
  LET x == ToNumber(a)
      y == ToNumber(b)
  IN  IF x.k = "nan" \/ y.k = "nan" THEN NaN
      ELSE IF x.k = "inf" /\ y.k = "inf"
           THEN (IF x.v = y.v THEN x ELSE NaN)
      ELSE IF x.k = "inf" THEN x
      ELSE IF y.k = "inf" THEN y
      ELSE Num(x.v + y.v)

isNaN(x) == ToNumber(x).k = "nan"

\* ------------------------------------------------------------- strings
WhiteSpace == {" "}
Digits == {"0", "1", "2", "3", "4", "5", "6", "7", "8", "9"}
DigitVal(c) ==
  CASE c = "0" -> 0 [] c = "1" -> 1 [] c = "2" -> 2 [] c = "3" -> 3
    [] c = "4" -> 4 [] c = "5" -> 5 [] c = "6" -> 6 [] c = "7" -> 7
    [] c = "8" -> 8 [] c = "9" -> 9

RECURSIVE TrimStart(_)
TrimStart(s) ==
  IF s # <<>> /\ Head(s) \in WhiteSpace THEN TrimStart(Tail(s)) ELSE s

RECURSIVE TrimEnd(_)
TrimEnd(s) ==
  IF s # <<>> /\ s[Len(s)] \in WhiteSpace
  THEN TrimEnd(SubSeq(s, 1, Len(s) - 1))
  ELSE s

\* String.prototype.trim
trim(s) == TrimEnd(TrimStart(s))

\* The longest prefix of decimal digits, and its value.
RECURSIVE DigitPrefix(_)
DigitPrefix(s) ==
  IF s # <<>> /\ Head(s) \in Digits
  THEN <<Head(s)>> \o DigitPrefix(Tail(s))
  ELSE <<>>

RECURSIVE DecimalValue(_)
DecimalValue(ds) ==
  IF ds = <<>> THEN 0
  ELSE 10 * DecimalValue(SubSeq(ds, 1, Len(ds) - 1)) + DigitVal(ds[Len(ds)])

\* parseFloat: leading white space is skipped, an optional sign is read, then
\* Infinity or the longest numeric prefix; anything after the prefix is
\* ignored; no prefix at all gives NaN.
parseFloat(s) ==
  LET t == TrimStart(s)
      signed == t # <<>> /\ Head(t) \in {"-", "+"}
      sign == IF signed /\ Head(t) = "-" THEN -1 ELSE 1
      rest == IF signed THEN Tail(t) ELSE t
      ds == DigitPrefix(rest)
  IN  IF rest # <<>> /\ Head(rest) = "Infinity" THEN Infinity(sign)
      ELSE IF ds = <<>> THEN NaN
      ELSE Num(sign * DecimalValue(ds))

\* --------------------------------------------------------------- dates
\* new Date(ms).toISOString() and new Date(iso).getTime()
toISOString(t) == [iso |-> t]
getTime(d) == d.iso

\* ---------------------------------------------------------------- JSON
\* A text is [kind |-> "empty"], [kind |-> "garbage"] (no JSON document) or
\* [kind |-> "json", doc |-> d], d a JSON document: [t |-> "array", items],
\* [t |-> "object", items |-> <<>>] or [t |-> "null", items |-> <<>>].
EmptyText == [kind |-> "empty", doc |-> [t |-> "none", items |-> <<>>]]
GarbageText == [kind |-> "garbage", doc |-> [t |-> "none", items |-> <<>>]]
JsonText(d) == [kind |-> "json", doc |-> d]
ArrayValue(items) == [t |-> "array", items |-> items]
ObjectValue == [t |-> "object", items |-> <<>>]
NullValue == [t |-> "null", items |-> <<>>]

\* JSON.stringify of a number: a non-finite number is written as null.
JSONstringifyNumber(x) == IF x.k = "num" THEN x ELSE Null

JSONstringifyRecord(tx) == [tx EXCEPT !.amount = JSONstringifyNumber(tx.amount)]

\* JSON.stringify(transactions)
JSONstringify(txs) ==
  JsonText(ArrayValue([i \in 1..Len(txs) |-> JSONstringifyRecord(txs[i])]))

\* JSON.parse: a SyntaxError on text that is no JSON document, else its value.
JSONparse(text) ==
  IF text.kind = "json"
  THEN [threw |-> FALSE, value |-> text.doc]
  ELSE [threw |-> TRUE, value |-> NullValue]

\* -------------------------------------------------------- localStorage
\* The store is a function from the keys it holds to their texts.
NoItem == [kind |-> "absent", doc |-> [t |-> "none", items |-> <<>>]]
getItem(ls, key) == IF key \in DOMAIN ls THEN ls[key] ELSE NoItem
setItem(ls, key, text) == [k \in DOMAIN ls \cup {key} |-> IF k = key THEN text ELSE ls[k]]
EmptyStore == [k \in {} |-> NoItem]


\* load reading a key the effect never writes.
loadWrongKey(ls, up) ==
  IF ~up THEN ArrayValue(<<>>)
  ELSE LET savedTransactions == getItem(ls, "transactions")
       IN  IF savedTransactions.kind \in {"absent", "empty"} THEN ArrayValue(<<>>)
           ELSE LET parsed == JSONparse(savedTransactions)
                IN  IF parsed.threw THEN ArrayValue(<<>>) ELSE parsed.value

\* The useState initialiser: the value the collection starts with.  up is
\* whether the store can be reached; when it cannot, getItem throws and the
\* catch returns [].  A missing item (null) and "" are falsy.
load(ls, up) ==
  IF ~up THEN ArrayValue(<<>>)
  ELSE LET savedTransactions == getItem(ls, StorageKey)
       IN  IF savedTransactions.kind \in {"absent", "empty"} THEN ArrayValue(<<>>)
           ELSE LET parsed == JSONparse(savedTransactions)
                IN  IF parsed.threw THEN ArrayValue(<<>>) ELSE parsed.value

\* The persist effect leaving the last record out of the snapshot.
useEffectPersistPartial(ls, txs) ==
  setItem(ls, StorageKey, JSONstringify(SubSeq(txs, 1, Len(txs) - 1)))

\* The persist effect: the whole collection is written to the slot.
useEffectPersist(ls, txs) == setItem(ls, StorageKey, JSONstringify(txs))

\* ---------------------------------------------------------------- sort
\* The comparator with its operands swapped (oldest first).
compareFnAscending(a, b) == getTime(a.date) - getTime(b.date)

\* The comparator of the add handler: negative when a goes before b.
compareFn(a, b) == getTime(b.date) - getTime(a.date)

\* Array.prototype.sort is stable: x goes before the first element that the
\* comparator puts after it.
RECURSIVE InsertSorted(_, _)
InsertSorted(s, x) ==
  IF s = <<>> THEN <<x>>
  ELSE IF compareFn(Head(s), x) > 0 THEN <<x>> \o s
  ELSE <<Head(s)>> \o InsertSorted(Tail(s), x)

RECURSIVE sort(_)
sort(s) ==
  IF s = <<>> THEN <<>>
  ELSE InsertSorted(sort(SubSeq(s, 1, Len(s) - 1)), s[Len(s)])

\* ------------------------------------------------------------ memoised
filterByType(txs, T) == SelectSeq(txs, LAMBDA tx : tx.type = T)

RECURSIVE reduce(_, _)
reduce(list, sum) ==
  IF list = <<>> THEN sum
  ELSE reduce(Tail(list), JsAdd(sum, Head(list).amount))

\* The sum started after the first record.
totalOfSkippingFirst(list) ==
  IF list = <<>> THEN Num(0) ELSE reduce(Tail(list), Num(0))

\* reduce((sum, tx) => sum + tx.amount, 0)
totalOf(list) == reduce(list, Num(0))

\* --------------------------------------------------------------- inputs
Times == 1..MaxTime
Types == {MyMoney, DadsDebt}
AmountInputs ==
  { <<>>, <<"-", "1">>, <<" ", "-", "1", "x">>, <<"Infinity">> }
DescriptionInputs == { <<>>, <<" ", " ">>, <<"G">> }

\* What the slot may hold when a session starts for the first time: nothing,
\* or a text some earlier writer left there.
StoredRecord(id, n, t, ty) ==
  [id |-> id, amount |-> Num(n), description |-> <<"G">>,
   date |-> toISOString(t), type |-> ty]
StoredTexts ==
  { EmptyText, GarbageText, JsonText(ObjectValue), JsonText(NullValue),
    JsonText(ArrayValue(<<>>)),
    JsonText(ArrayValue(<<StoredRecord(101, 2, 1, MyMoney),
                          StoredRecord(101, -1, 2, DadsDebt)>>)),
    JsonText(ArrayValue(<<StoredRecord(101, 2, 2, "other")>>)) }
InitialStores ==
  {EmptyStore} \cup {setItem(EmptyStore, StorageKey, text) : text \in StoredTexts}
DeleteIds == (1..MaxAdds) \cup {101, 102}

\* ---------------------------------------------------------------- state
VARIABLES
  transactions,          \* the collection in React state
  myMoneyTransactions,   \* the memoised per-type lists and totals of the
  dadsDebtTransactions,  \*   last render
  myMoneyTotal,
  dadsDebtTotal,
  localStorage,          \* the durable store
  storeUp,               \* whether the store can be read and written
  mounted,               \* whether the component is mounted
  uncaught,              \* the error that left the component, or "none"
  lastOp,                \* the last handler that ran and how it ended
  nextId,                \* ids handed out by crypto.randomUUID so far, plus 1
  sessions               \* page loads so far

vars ==
  <<transactions, myMoneyTransactions, dadsDebtTransactions, myMoneyTotal,
    dadsDebtTotal, localStorage, storeUp, mounted, uncaught, lastOp, nextId,
    sessions>>

Init ==
  /\ transactions = <<>>
  /\ myMoneyTransactions = <<>>
  /\ dadsDebtTransactions = <<>>
  /\ myMoneyTotal = Num(0)
  /\ dadsDebtTotal = Num(0)
  /\ localStorage \in InitialStores
  /\ storeUp = TRUE
  /\ mounted = FALSE
  /\ uncaught = "none"
  /\ lastOp = "none"
  /\ nextId = 1
  /\ sessions = 0

\* An error leaves the component: React unmounts the tree and its state is
\* gone.
Unmount(error) ==
  /\ transactions' = <<>>
  /\ myMoneyTransactions' = <<>>
  /\ dadsDebtTransactions' = <<>>
  /\ myMoneyTotal' = Num(0)
  /\ dadsDebtTotal' = Num(0)
  /\ mounted' = FALSE
  /\ uncaught' = error

\* A render with the collection txs, then the persist effect.
Render(txs) ==
  IF storeUp
  THEN /\ transactions' = txs
       /\ myMoneyTransactions' = filterByType(txs, MyMoney)
       /\ dadsDebtTransactions' = filterByType(txs, DadsDebt)
       /\ myMoneyTotal' = totalOf(filterByType(txs, MyMoney))
       /\ dadsDebtTotal' = totalOf(filterByType(txs, DadsDebt))
       /\ localStorage' = useEffectPersist(localStorage, txs)
       /\ mounted' = TRUE
       /\ uncaught' = "none"
  ELSE /\ Unmount("DOMException")
       /\ UNCHANGED localStorage

\* The page is loaded: the initialiser runs, the first render filters the
\* value it returned (a TypeError when that is no array), the effect persists.
Mount ==
  /\ sessions < MaxSessions
  /\ sessions' = sessions + 1
  /\ lastOp' = "load"
  /\ LET initial == load(localStorage, storeUp)
     IN  IF initial.t # "array"
         THEN Unmount("TypeError") /\ UNCHANGED localStorage
         ELSE Render(initial.items)
  /\ UNCHANGED <<storeUp, nextId>>

\* The form is submitted with newAmount, newDescription and newType as the
\* user left them, at clock reading now.
handleAddTransaction(newAmount, newDescription, newType, now) ==
  /\ mounted
  /\ LET amount == parseFloat(newAmount)
     IN  IF trim(newDescription) = <<>> \/ isNaN(amount)
         THEN /\ lastOp' = "alert"
              /\ UNCHANGED <<transactions, myMoneyTransactions,
                             dadsDebtTransactions, myMoneyTotal, dadsDebtTotal,
                             localStorage, mounted, uncaught, nextId>>
         ELSE /\ nextId <= MaxAdds
              /\ LET newTransaction ==
                       [id |-> nextId, amount |-> amount,
                        description |-> newDescription,
                        date |-> toISOString(now), type |-> newType]
                 IN  Render(sort(Append(transactions, newTransaction)))
              /\ nextId' = nextId + 1
              /\ lastOp' = "add"
  /\ UNCHANGED <<storeUp, sessions>>

\* The delete button's handler; confirmed is the answer to window.confirm.
\* Declined, the handler does nothing at all.
handleDeleteTransaction(id, confirmed) ==
  /\ mounted
  /\ IF confirmed
     THEN /\ Render(SelectSeq(transactions, LAMBDA tx : tx.id # id))
          /\ lastOp' = "delete"
     ELSE UNCHANGED <<transactions, myMoneyTransactions, dadsDebtTransactions,
                      myMoneyTotal, dadsDebtTotal, localStorage, mounted,
                      uncaught, lastOp>>
  /\ UNCHANGED <<storeUp, nextId, sessions>>

\* The store becomes unavailable (disabled, over capacity) or available again.
StoreChanges ==
  /\ storeUp' = ~storeUp
  /\ UNCHANGED <<transactions, myMoneyTransactions, dadsDebtTransactions,
                 myMoneyTotal, dadsDebtTotal, localStorage, mounted, uncaught,
                 lastOp, nextId, sessions>>

Add ==
  \E a \in AmountInputs, d \in DescriptionInputs, ty \in Types, now \in Times :
    handleAddTransaction(a, d, ty, now)

Delete == \E id \in DeleteIds, confirmed \in BOOLEAN : handleDeleteTransaction(id, confirmed)

Next == Mount \/ Add \/ Delete \/ StoreChanges

Spec == Init /\ [][Next]_vars


\* =====================================================================
\* Properties
\* =====================================================================
Indices(txs) == 1..Len(txs)
RecordsOf(txs) == {txs[i] : i \in Indices(txs)}
SortedByDateDescending(txs) ==
  \A i, j \in Indices(txs) : i < j => getTime(txs[i].date) >= getTime(txs[j].date)
HasId(txs, id) == \E i \in Indices(txs) : txs[i].id = id
SameDate(txs, d) == SelectSeq(txs, LAMBDA tx : getTime(tx.date) = d)
DatesOf(txs) == {getTime(txs[i].date) : i \in Indices(txs)}

\* A collection as the data model describes it: finite amounts, descriptions
\* that are not blank, one of the two types, ids that differ.
ValidCollection(txs) ==
  /\ \A i \in Indices(txs) :
       /\ txs[i].amount.k = "num"
       /\ trim(txs[i].description) # <<>>
       /\ txs[i].type \in Types
  /\ \A i, j \in Indices(txs) : i # j => txs[i].id # txs[j].id

\* The step is a successful add: an id was handed out and the render went
\* through.
AddSucceeded == nextId' = nextId + 1 /\ mounted'

\* C1: while the component is mounted (no handler is running), the slot
\* savingsTrackerTransactions holds the serialisation of the whole current
\* collection: every add and delete that went through wrote a full snapshot.
C1_SlotHoldsCurrentSnapshot ==
  mounted => getItem(localStorage, StorageKey) = JSONstringify(transactions)

\* A delete went through and left records behind, all of them in the slot.
C1_Witness ==
  /\ mounted
  /\ lastOp = "delete"
  /\ Len(transactions) >= 1
  /\ getItem(localStorage, StorageKey).doc.items # <<>>

\* C2: after every add that goes through, the whole collection is sorted by
\* date, newest first, whatever order it had before; records of equal date
\* keep the order they had, and the new record comes after those of its date.
C2_SortedAfterAdd ==
  [][AddSucceeded =>
       /\ SortedByDateDescending(transactions')
       /\ Len(transactions') = Len(transactions) + 1
       /\ \A d \in DatesOf(transactions') :
            \E tx \in RecordsOf(transactions') :
              /\ tx.id = nextId
              /\ SameDate(transactions', d) =
                   SameDate(Append(transactions, tx), d)]_vars

\* An add has placed the new record behind an older-added record of the same
\* date and ahead of an older one.
C2_Witness ==
  /\ mounted
  /\ lastOp = "add"
  /\ \E i, j, k \in Indices(transactions) :
       /\ i < j /\ j < k
       /\ transactions[j].id = nextId - 1
       /\ getTime(transactions[i].date) = getTime(transactions[j].date)
       /\ getTime(transactions[k].date) < getTime(transactions[j].date)

\* C3: an add whose description is blank after trimming, or whose amount does
\* not parse to a finite number, is refused with the alert, changes nothing in
\* the collection and writes nothing to the store.
C3_InvalidAddRefused ==
  [][\A a \in AmountInputs, d \in DescriptionInputs, ty \in Types, now \in Times :
       (/\ handleAddTransaction(a, d, ty, now)
        /\ (trim(d) = <<>> \/ parseFloat(a).k # "num"))
       => (/\ lastOp' = "alert"
           /\ transactions' = transactions
           /\ localStorage' = localStorage)]_vars

\* C4: an add or a delete made while the store cannot be written leaves no
\* error uncaught and the component mounted, its collection still in use.
C4_WriteFailureAbsorbed ==
  [][(/\ ~storeUp
      /\ \/ nextId' = nextId + 1
         \/ \E id \in DeleteIds : handleDeleteTransaction(id, TRUE))
     => (mounted' /\ uncaught' = "none")]_vars

\* What load expects in the slot: an array of transaction records.
ExpectedShape(doc) ==
  /\ doc.t = "array"
  /\ \A i \in Indices(doc.items) :
       /\ doc.items[i].type \in Types
       /\ doc.items[i].amount.k = "num"
MissingOrMalformed(text) ==
  \/ text.kind \in {"absent", "empty", "garbage"}
  \/ text.kind = "json" /\ ~ExpectedShape(text.doc)

\* C5: a page load that finds the slot missing, empty, unparsable or holding
\* something that is not an array of transaction records starts with the empty
\* collection and raises no error.
C5_BadPayloadLoadsEmpty ==
  [][(/\ sessions' = sessions + 1
      /\ MissingOrMalformed(getItem(localStorage, StorageKey)))
     => (transactions' = <<>> /\ uncaught' # "TypeError")]_vars

\* C6: a confirmed delete of an id that no record carries leaves the
\* collection as it was, same records in the same order, and is not an error.
C6_DeleteOfAbsentIdIsNoOp ==
  [][\A id \in DeleteIds :
       (handleDeleteTransaction(id, TRUE) /\ ~HasId(transactions, id))
       => (transactions' = transactions /\ mounted' /\ uncaught' = "none")]_vars

\* C7: no two records of the collection carry the same id.
C7_IdsUnique ==
  \A i, j \in Indices(transactions) :
    i # j => transactions[i].id # transactions[j].id

\* C8: the two per-type lists partition the collection: each record is in
\* exactly one of them, and each list is the collection's records of its type
\* in the collection's order.
C8_ListsPartitionCollection ==
  mounted =>
    /\ Len(myMoneyTransactions) + Len(dadsDebtTransactions) = Len(transactions)
    /\ \A i \in Indices(transactions) :
         (\E j \in Indices(myMoneyTransactions) :
            myMoneyTransactions[j] = transactions[i])
         # (\E j \in Indices(dadsDebtTransactions) :
              dadsDebtTransactions[j] = transactions[i])
    /\ RecordsOf(myMoneyTransactions) \cap RecordsOf(dadsDebtTransactions) = {}

\* C9: a valid collection that is in the slot comes back from the next page
\* load with the same records, field for field.
C9_RoundTrip ==
  [][(/\ sessions' = sessions + 1
      /\ mounted /\ storeUp
      /\ ValidCollection(transactions)
      /\ getItem(localStorage, StorageKey) = JSONstringify(transactions))
     => (/\ mounted'
         /\ Len(transactions') = Len(transactions)
         /\ RecordsOf(transactions') = RecordsOf(transactions))]_vars

\* A second page load has brought back two records added in an earlier
\* session.
C9_Witness ==
  /\ sessions >= 2
  /\ lastOp = "load"
  /\ mounted
  /\ Len(transactions) >= 2
  /\ ValidCollection(transactions)
  /\ \A i \in Indices(transactions) : transactions[i].id < nextId

\* The sum of the amounts of the first n records of txs that have type T.
RECURSIVE SumOfType(_, _, _)
SumOfType(txs, T, n) ==
  IF n = 0 THEN Num(0)
  ELSE IF txs[n].type = T
       THEN JsAdd(SumOfType(txs, T, n - 1), txs[n].amount)
       ELSE SumOfType(txs, T, n - 1)

\* C10: each total shown is the sum of the amounts of exactly the records of
\* its type now in the collection, and 0 when there is none.
C10_TotalsAreSums ==
  mounted =>
    /\ myMoneyTotal = SumOfType(transactions, MyMoney, Len(transactions))
    /\ dadsDebtTotal = SumOfType(transactions, DadsDebt, Len(transactions))
    /\ (\A i \in Indices(transactions) : transactions[i].type # MyMoney)
         => myMoneyTotal = Num(0)
    /\ (\A i \in Indices(transactions) : transactions[i].type # DadsDebt)
         => dadsDebtTotal = Num(0)

\* A delete has left records of one type only: their total is shown, and the
\* total of the other type is 0.
C10_Witness ==
  /\ mounted
  /\ lastOp = "delete"
  /\ myMoneyTransactions # <<>>
  /\ dadsDebtTransactions = <<>>
  /\ myMoneyTotal = Num(-1)
  /\ dadsDebtTotal = Num(0)

====
